---- MODULE Spec2Model ----
(***************************************************************************)
(* tatatext-helper (src/main.go): a local HTTP helper that keeps one      *)
(* managed yt-dlp binary on disk, updates it in the background and runs   *)
(* it on behalf of /audio requests.                                       *)
(*                                                                        *)
(* Strings of the program are modelled as sequences of tokens ("" is      *)
(* <<>>), files as a body plus the number of chunks of it that are on     *)
(* disk, and every goroutine as a program counter plus its locals.        *)
(***************************************************************************)
EXTENDS Integers, Sequences, FiniteSets, TLC

(***************************************************************************)
(* Bounds of the model.                                                    *)
(***************************************************************************)
\* number of /audio requests that can be in flight at the same time
NumAudio == 1
\* number of chunks io.Copy / os.WriteFile needs to put one file on disk
FileChunks == 2
\* number of distinct releases the feed can report
MaxRelease == 1
\* longest output of the binary, in tokens, among the outputs of every shape
MaxOut == 4

(***************************************************************************)
(* Strings.                                                                *)
(***************************************************************************)
EmptyStr == <<>>

VersionNames == <<"2024.01.01", "2024.02.01", "2024.03.01", "2024.04.01">>

\* the version the embedded binary prints
EmbeddedVersion == <<VersionNames[1]>>

\* the version string of the i-th release published after the embedded one
ReleaseVersion(i) == <<VersionNames[i + 1]>>

\* what the feed's tag_name can decode to: a release tag, or "" when the
\* field is missing from the JSON document
Tags == {EmptyStr} \cup {ReleaseVersion(i) : i \in 1..MaxRelease}

IsSpace(c) == c \in {" ", "\n", "\t", "\r"}

RECURSIVE TrimLeft(_)
TrimLeft(s) ==
    IF s = <<>> THEN <<>>
    ELSE IF IsSpace(Head(s)) THEN TrimLeft(Tail(s)) ELSE s

RECURSIVE TrimRight(_)
TrimRight(s) ==
    IF s = <<>> THEN <<>>
    ELSE IF IsSpace(s[Len(s)]) THEN TrimRight(SubSeq(s, 1, Len(s) - 1)) ELSE s

\* strings.TrimSpace
TrimSpace(s) == TrimRight(TrimLeft(s))

\* filepath.Join of two elements: empty elements are ignored
Join(a, b) ==
    IF a = <<>> THEN b
    ELSE IF b = <<>> THEN a
    ELSE a \o <<"/">> \o b

(***************************************************************************)
(* Program constants and the platform.                                     *)
(***************************************************************************)
CONFIG_DIR == <<"tatatext-helper">>

\* runtime.GOOS of the build under study
GOOS == "darwin"

\* the file name of the managed binary
outName == IF GOOS = "windows" THEN <<"yt-dlp.exe">> ELSE <<"yt-dlp">>

\* the directories os.UserConfigDir and os.TempDir answer with
UserConfigDirValue == <<"$CONFIG">>
TempDir == <<"$TMP">>

\* os.UserConfigDir(): the directory, or "" and an error
UserConfigDir(ok) ==
    IF ok THEN [dir |-> UserConfigDirValue, err |-> FALSE]
    ELSE [dir |-> EmptyStr, err |-> TRUE]

\* extractYtDlp's outPath: falls back to the temporary directory
ExtractOutPath(ok) ==
    LET r == UserConfigDir(ok)
        configDir == IF r.err THEN TempDir ELSE r.dir
    IN Join(Join(configDir, CONFIG_DIR), outName)

\* downloadYtDlp's outPath: the error of os.UserConfigDir is dropped
DownloadOutPath(ok) ==
    LET r == UserConfigDir(ok)
    IN Join(Join(r.dir, CONFIG_DIR), outName)

\* a variant of tmpPath that writes the download straight onto the target
tmpPath_InPlace(outPath) == outPath

\* downloadYtDlp's tmpPath
tmpPath(outPath) == outPath \o <<".tmp">>

Targets == {ExtractOutPath(ok) : ok \in BOOLEAN} \cup {DownloadOutPath(ok) : ok \in BOOLEAN}

Paths == Targets \cup {tmpPath(p) : p \in Targets}

(***************************************************************************)
(* Files.                                                                  *)
(***************************************************************************)
NoBody == [kind |-> "none", tag |-> EmptyStr]

\* the binary compiled into the helper
Embedded == [kind |-> "embedded", tag |-> EmbeddedVersion]

\* the release asset published under tag t
Asset(t) == [kind |-> "asset", tag |-> t]

\* the body of an HTTP error response
ErrorPage == [kind |-> "errpage", tag |-> EmptyStr]

Absent == [exists |-> FALSE, body |-> NoBody, len |-> 0]

\* a file holding the first n chunks of body b
FileOf(b, n) == [exists |-> TRUE, body |-> b, len |-> n]

Complete(f) == f.exists /\ f.len = FileChunks

\* the file can be started as a program
Runnable(f) == Complete(f) /\ f.body.kind \in {"embedded", "asset"}

\* what `bin --version` prints when bin holds body b
VersionOutput(b) == b.tag \o <<"\n">>

\* getYtDlpVersion, given the file found at bin
getYtDlpVersion(f) ==
    IF Runnable(f) THEN TrimSpace(VersionOutput(f.body)) ELSE <<"unknown">>

\* the file system with path p truncated or created empty (O_CREATE|O_TRUNC)
OpenTrunc(f, p) == [f EXCEPT ![p] = FileOf(NoBody, 0)]

\* the file system after one more chunk of body b is written at path p
WriteChunk(f, p, b) == [f EXCEPT ![p] = FileOf(b, f[p].len + 1)]

\* os.Rename succeeding: the new name takes the whole file in one step
RenameOk(f, from, to) ==
    IF from = to THEN f
    ELSE [f EXCEPT ![to] = f[from], ![from] = Absent]

\* os.Rename failing: nothing changes, the temp file stays
RenameErr(f, from, to) == f

(***************************************************************************)
(* The release feed and the download server.                               *)
(***************************************************************************)
\* browser_download_url of the platform asset of the release tagged t
AssetURL(t) == <<"https://releases/">> \o t

\* the asset a download URL names
AssetAt(url) == Asset(Tail(url))

\* the HTTP responses a GET of url can complete with: the asset, or an
\* error status with an error page as body
DownloadResponses(url) ==
    {[status |-> 200, body |-> AssetAt(url)],
     [status |-> 404, body |-> ErrorPage]}

NoResp == [status |-> 0, body |-> NoBody]

(***************************************************************************)
(* The lock and the ticker.                                                *)
(***************************************************************************)
NoHolder == 0
AudioIds == 1..NumAudio
PingId == NumAudio + 1
UpdaterId == NumAudio + 2

\* an unlock that was left out
Unlock_Missing(holder) == holder

\* updateMu.Unlock()
Unlock(holder) == NoHolder

\* capacity of the channel of a time.Ticker
TickerCap == 1

\* the ticker's send: a tick is dropped when the channel is full
TickerSend(buf) == IF buf < TickerCap THEN buf + 1 ELSE buf

\* a comparison that never finds the binary up to date
UpToDate_Never(cur, latest) == FALSE

\* checkAndUpdate's test `current == latestVersion`
UpToDate(cur, latest) == cur = latest

(***************************************************************************)
(* State.                                                                  *)
(***************************************************************************)
VARIABLES
    cfgOK,          \* whether os.UserConfigDir succeeds in this environment
    fs,             \* the files on disk, by path
    mainpc,         \* position of main
    ytdlpPath,      \* global ytdlpPath
    ytdlpVersion,   \* global ytdlpVersion
    updateMu,       \* holder of updateMu, or NoHolder
    upc,            \* position of the updater goroutine
    latestVersion,  \* checkAndUpdate's latestVersion
    downloadURL,    \* checkAndUpdate's downloadURL
    current,        \* checkAndUpdate's current
    resp,           \* downloadYtDlp's resp
    newPath,        \* checkAndUpdate's newPath
    logLine,        \* the last line checkAndUpdate logged
    ticker,         \* whether time.NewTicker has been called
    tickBuf,        \* ticks waiting in ticker.C
    pre,            \* path, version and files when the running cycle started
    areq,           \* the /audio requests, by handler
    preq            \* the /ping request

mainVars == <<cfgOK, mainpc>>
binVars == <<ytdlpPath, ytdlpVersion>>
updVars == <<upc, latestVersion, downloadURL, current, resp, newPath, logLine, pre>>
tickVars == <<ticker, tickBuf>>
reqVars == <<areq, preq>>
vars == <<cfgOK, fs, mainpc, ytdlpPath, ytdlpVersion, updateMu, upc,
          latestVersion, downloadURL, current, resp, newPath, logLine,
          ticker, tickBuf, pre, areq, preq>>

NoPre == [path |-> EmptyStr, version |-> EmptyStr, files |-> [p \in Targets |-> Absent]]

Snapshot ==
    [path |-> ytdlpPath, version |-> ytdlpVersion, files |-> [p \in Targets |-> fs[p]]]

IdleReq ==
    [pc |-> "idle", method |-> "", url |-> EmptyStr, bin |-> EmptyStr,
     ran |-> EmptyStr, atRead |-> Absent, swapped |-> FALSE, out |-> EmptyStr,
     title |-> EmptyStr,
     audioURL |-> EmptyStr, status |-> 0, body |-> "", invoked |-> FALSE,
     cmdErr |-> FALSE, upstream |-> FALSE, headers |-> <<>>]

IdlePing == [pc |-> "idle", v |-> EmptyStr]

Init ==
    /\ cfgOK \in BOOLEAN
    /\ \E old \in {Absent, FileOf(Embedded, FileChunks)} :
         fs = [p \in Paths |-> IF p = ExtractOutPath(cfgOK) THEN old ELSE Absent]
    /\ mainpc = "extract"
    /\ ytdlpPath = EmptyStr
    /\ ytdlpVersion = EmptyStr
    /\ updateMu = NoHolder
    /\ upc = "off"
    /\ latestVersion = EmptyStr
    /\ downloadURL = EmptyStr
    /\ current = EmptyStr
    /\ resp = NoResp
    /\ newPath = EmptyStr
    /\ logLine = ""
    /\ ticker = FALSE
    /\ tickBuf = 0
    /\ pre = NoPre
    /\ areq = [h \in AudioIds |-> IdleReq]
    /\ preq = IdlePing

(***************************************************************************)
(* main: startup.                                                          *)
(***************************************************************************)
\* extractYtDlp when os.Stat finds a file at outPath: it is reused as it is
MainExtractExisting ==
    /\ mainpc = "extract"
    /\ fs[ExtractOutPath(cfgOK)].exists
    /\ ytdlpPath' = ExtractOutPath(cfgOK)
    /\ mainpc' = "version"
    /\ UNCHANGED <<cfgOK, fs, ytdlpVersion, updateMu, updVars, tickVars, reqVars>>

\* extractYtDlp when there is no file: the embedded binary is written out
MainExtractWrite ==
    /\ mainpc = "extract"
    /\ ~fs[ExtractOutPath(cfgOK)].exists
    /\ fs' = [fs EXCEPT ![ExtractOutPath(cfgOK)] = FileOf(Embedded, FileChunks)]
    /\ ytdlpPath' = ExtractOutPath(cfgOK)
    /\ mainpc' = "version"
    /\ UNCHANGED <<cfgOK, ytdlpVersion, updateMu, updVars, tickVars, reqVars>>

\* extractYtDlp when reading the embedded file or writing it out fails:
\* log.Fatal ends the process, with whatever part was written left behind
MainExtractFatal ==
    /\ mainpc = "extract"
    /\ ~fs[ExtractOutPath(cfgOK)].exists
    /\ \E f \in {Absent} \cup {FileOf(Embedded, n) : n \in 1..(FileChunks - 1)}
              \cup {FileOf(NoBody, 0)} :
         fs' = [fs EXCEPT ![ExtractOutPath(cfgOK)] = f]
    /\ mainpc' = "fatal"
    /\ UNCHANGED <<cfgOK, binVars, updateMu, updVars, tickVars, reqVars>>

\* ytdlpVersion = getYtDlpVersion(ytdlpPath)
MainVersion ==
    /\ mainpc = "version"
    /\ ytdlpVersion' = getYtDlpVersion(fs[ytdlpPath])
    /\ mainpc' = "spawn"
    /\ UNCHANGED <<cfgOK, fs, ytdlpPath, updateMu, updVars, tickVars, reqVars>>

\* go autoUpdateYtDlp(): the updater starts its first cycle
MainSpawn ==
    /\ mainpc = "spawn"
    /\ mainpc' = "listen"
    /\ upc' = "check"
    /\ logLine' = "checking for yt-dlp updates..."
    /\ pre' = Snapshot
    /\ UNCHANGED <<cfgOK, fs, binVars, updateMu, latestVersion, downloadURL,
                   current, resp, newPath, tickVars, reqVars>>

\* http.ListenAndServe starts accepting requests
MainListen ==
    /\ mainpc = "listen"
    /\ mainpc' = "serving"
    /\ UNCHANGED <<cfgOK, fs, binVars, updateMu, updVars, tickVars, reqVars>>

\* http.ListenAndServe fails (the port is taken): log.Fatal ends the process
MainListenFatal ==
    /\ mainpc = "listen"
    /\ mainpc' = "fatal"
    /\ UNCHANGED <<cfgOK, fs, binVars, updateMu, updVars, tickVars, reqVars>>

\* the process is running (neither log.Fatal nor a signal has ended it)
Alive == mainpc \notin {"fatal", "killed"}

(***************************************************************************)
(* The updater goroutine: autoUpdateYtDlp, checkAndUpdate, downloadYtDlp.  *)
(***************************************************************************)
\* checkAndUpdate returns after logging msg; autoUpdateYtDlp then makes its
\* ticker (after the first cycle) and waits on ticker.C
EndCycle(msg) ==
    /\ upc' = "wait"
    /\ logLine' = msg
    /\ latestVersion' = EmptyStr
    /\ downloadURL' = EmptyStr
    /\ current' = EmptyStr
    /\ resp' = NoResp
    /\ newPath' = EmptyStr
    /\ ticker' = TRUE
    /\ pre' = NoPre
    /\ UNCHANGED tickBuf

\* getLatestYtDlpRelease answers with a tag and the platform asset's URL
UpdReleaseOk ==
    /\ Alive /\ upc = "check"
    /\ \E t \in Tags :
         /\ latestVersion' = t
         /\ downloadURL' = AssetURL(t)
    /\ upc' = "lock1"
    /\ UNCHANGED <<mainVars, fs, binVars, updateMu, current, resp, newPath,
                   logLine, pre, tickVars, reqVars>>

\* getLatestYtDlpRelease fails: transport error, malformed JSON, or no
\* asset of the platform's name in the release
UpdReleaseErr ==
    /\ Alive /\ upc = "check"
    /\ EndCycle("update check failed")
    /\ UNCHANGED <<mainVars, fs, binVars, updateMu, reqVars>>

\* the feed's server never answers: http.Get has no timeout and never returns
UpdReleaseStall ==
    /\ Alive /\ upc = "check"
    /\ upc' = "check_stalled"
    /\ UNCHANGED <<mainVars, fs, binVars, updateMu, latestVersion, downloadURL,
                   current, resp, newPath, logLine, pre, tickVars, reqVars>>

\* updateMu.Lock() before reading ytdlpVersion
UpdLock1 ==
    /\ Alive /\ upc = "lock1"
    /\ updateMu = NoHolder
    /\ updateMu' = UpdaterId
    /\ upc' = "held1"
    /\ UNCHANGED <<mainVars, fs, binVars, latestVersion, downloadURL, current,
                   resp, newPath, logLine, pre, tickVars, reqVars>>

\* current := ytdlpVersion; updateMu.Unlock()
UpdRead ==
    /\ Alive /\ upc = "held1"
    /\ current' = ytdlpVersion
    /\ updateMu' = Unlock(updateMu)
    /\ upc' = "compare"
    /\ UNCHANGED <<mainVars, fs, binVars, latestVersion, downloadURL, resp,
                   newPath, logLine, pre, tickVars, reqVars>>

\* current == latestVersion: nothing to do
UpdUpToDate ==
    /\ Alive /\ upc = "compare"
    /\ UpToDate(current, latestVersion)
    /\ EndCycle("yt-dlp is up to date")
    /\ UNCHANGED <<mainVars, fs, binVars, updateMu, reqVars>>

\* a cycle that records the new version as soon as it has seen it
UpdOutdated_RecordsFirst ==
    /\ Alive /\ upc = "compare"
    /\ ~UpToDate(current, latestVersion)
    /\ upc' = "dl_get"
    /\ logLine' = "updating yt-dlp"
    /\ ytdlpVersion' = latestVersion
    /\ UNCHANGED <<mainVars, fs, ytdlpPath, updateMu, latestVersion, downloadURL,
                   current, resp, newPath, pre, tickVars, reqVars>>

\* current differs from latestVersion: downloadYtDlp is called
UpdOutdated ==
    /\ Alive /\ upc = "compare"
    /\ ~UpToDate(current, latestVersion)
    /\ upc' = "dl_get"
    /\ logLine' = "updating yt-dlp"
    /\ UNCHANGED <<mainVars, fs, binVars, updateMu, latestVersion, downloadURL,
                   current, resp, newPath, pre, tickVars, reqVars>>

\* http.Get(url) returns a response, of whatever status
UpdGetOk ==
    /\ Alive /\ upc = "dl_get"
    /\ \E r \in DownloadResponses(downloadURL) : resp' = r
    /\ upc' = "dl_open"
    /\ UNCHANGED <<mainVars, fs, binVars, updateMu, latestVersion, downloadURL,
                   current, newPath, logLine, pre, tickVars, reqVars>>

\* http.Get(url) returns an error
UpdGetErr ==
    /\ Alive /\ upc = "dl_get"
    /\ EndCycle("update download failed")
    /\ UNCHANGED <<mainVars, fs, binVars, updateMu, reqVars>>

\* the download server never answers
UpdGetStall ==
    /\ Alive /\ upc = "dl_get"
    /\ upc' = "dl_stalled"
    /\ UNCHANGED <<mainVars, fs, binVars, updateMu, latestVersion, downloadURL,
                   current, resp, newPath, logLine, pre, tickVars, reqVars>>

\* os.OpenFile(tmpPath, O_CREATE|O_WRONLY|O_TRUNC)
UpdOpenOk ==
    /\ Alive /\ upc = "dl_open"
    /\ fs' = OpenTrunc(fs, tmpPath(DownloadOutPath(cfgOK)))
    /\ upc' = "dl_copy"
    /\ UNCHANGED <<mainVars, binVars, updateMu, latestVersion, downloadURL,
                   current, resp, newPath, logLine, pre, tickVars, reqVars>>

\* os.OpenFile fails (no such directory, no permission)
UpdOpenErr ==
    /\ Alive /\ upc = "dl_open"
    /\ EndCycle("update download failed")
    /\ UNCHANGED <<mainVars, fs, binVars, updateMu, reqVars>>

\* io.Copy writes the next chunk of the body; after the last one the file
\* is closed
UpdCopyChunk ==
    /\ Alive /\ upc = "dl_copy"
    /\ LET tmp == tmpPath(DownloadOutPath(cfgOK)) IN
         /\ fs[tmp].len < FileChunks
         /\ fs' = WriteChunk(fs, tmp, resp.body)
         /\ upc' = IF fs[tmp].len + 1 = FileChunks THEN "dl_rename" ELSE "dl_copy"
    /\ UNCHANGED <<mainVars, binVars, updateMu, latestVersion, downloadURL,
                   current, resp, newPath, logLine, pre, tickVars, reqVars>>

\* a checkAndUpdate that logs the failed download and installs all the same
UpdCopyErr_NoReturn ==
    /\ Alive /\ upc = "dl_copy"
    /\ ytdlpVersion' = latestVersion
    /\ EndCycle("update download failed")
    /\ UNCHANGED <<mainVars, fs, ytdlpPath, updateMu, reqVars>>

\* io.Copy fails part way (connection reset, disk full): the file is closed
\* and left as it is
UpdCopyErr ==
    /\ Alive /\ upc = "dl_copy"
    /\ EndCycle("update download failed")
    /\ UNCHANGED <<mainVars, fs, binVars, updateMu, reqVars>>

\* the body stops arriving and the connection stays open
UpdCopyStall ==
    /\ Alive /\ upc = "dl_copy"
    /\ upc' = "copy_stalled"
    /\ UNCHANGED <<mainVars, fs, binVars, updateMu, latestVersion, downloadURL,
                   current, resp, newPath, logLine, pre, tickVars, reqVars>>

\* os.Rename(tmpPath, outPath) succeeds; downloadYtDlp returns outPath
UpdRenameOk ==
    /\ Alive /\ upc = "dl_rename"
    /\ LET out == DownloadOutPath(cfgOK) IN
         /\ fs' = RenameOk(fs, tmpPath(out), out)
         /\ newPath' = out
    /\ upc' = "lock2"
    /\ UNCHANGED <<mainVars, binVars, updateMu, latestVersion, downloadURL,
                   current, resp, logLine, pre, tickVars, reqVars>>

\* os.Rename fails
UpdRenameErr ==
    /\ Alive /\ upc = "dl_rename"
    /\ LET out == DownloadOutPath(cfgOK) IN
         fs' = RenameErr(fs, tmpPath(out), out)
    /\ EndCycle("update download failed")
    /\ UNCHANGED <<mainVars, binVars, updateMu, reqVars>>

\* updateMu.Lock() before the install
UpdLock2 ==
    /\ Alive /\ upc = "lock2"
    /\ updateMu = NoHolder
    /\ updateMu' = UpdaterId
    /\ upc' = "held2a"
    /\ UNCHANGED <<mainVars, fs, binVars, latestVersion, downloadURL, current,
                   resp, newPath, logLine, pre, tickVars, reqVars>>

\* ytdlpPath = newPath
UpdSetPath ==
    /\ Alive /\ upc = "held2a"
    /\ ytdlpPath' = newPath
    /\ upc' = "held2b"
    /\ UNCHANGED <<mainVars, fs, ytdlpVersion, updateMu, latestVersion,
                   downloadURL, current, resp, newPath, logLine, pre, tickVars,
                   reqVars>>

\* an install that records the version it had read instead of the new one
UpdSetVersion_Current ==
    /\ Alive /\ upc = "held2b"
    /\ ytdlpVersion' = current
    /\ updateMu' = Unlock(updateMu)
    /\ EndCycle("yt-dlp updated")
    /\ UNCHANGED <<mainVars, fs, ytdlpPath, reqVars>>

\* ytdlpVersion = latestVersion; updateMu.Unlock(); the cycle is over
UpdSetVersion ==
    /\ Alive /\ upc = "held2b"
    /\ ytdlpVersion' = latestVersion
    /\ updateMu' = Unlock(updateMu)
    /\ EndCycle("yt-dlp updated")
    /\ UNCHANGED <<mainVars, fs, ytdlpPath, reqVars>>

\* the ticker fires
Tick ==
    /\ Alive /\ ticker
    /\ tickBuf' = TickerSend(tickBuf)
    /\ UNCHANGED <<mainVars, fs, binVars, updateMu, updVars, ticker, reqVars>>

\* a loop that starts a cycle for every tick without waiting for the
\* running one (go checkAndUpdate())
UpdTick_Overlapping ==
    /\ Alive /\ upc # "off"
    /\ tickBuf > 0
    /\ tickBuf' = tickBuf - 1
    /\ upc' = "check"
    /\ logLine' = "checking for yt-dlp updates..."
    /\ pre' = Snapshot
    /\ UNCHANGED <<mainVars, fs, binVars, updateMu, latestVersion, downloadURL,
                   current, resp, newPath, ticker, reqVars>>

\* `for range ticker.C` receives a tick: the next cycle starts
UpdTick ==
    /\ Alive /\ upc = "wait"
    /\ tickBuf > 0
    /\ tickBuf' = tickBuf - 1
    /\ upc' = "check"
    /\ logLine' = "checking for yt-dlp updates..."
    /\ pre' = Snapshot
    /\ UNCHANGED <<mainVars, fs, binVars, updateMu, latestVersion, downloadURL,
                   current, resp, newPath, ticker, reqVars>>

(***************************************************************************)
(* The /audio handler.                                                     *)
(***************************************************************************)
Methods == {"GET", "OPTIONS"}

\* values of the url query parameter: absent or empty, or a video URL
URLs == {EmptyStr, <<"https://youtu.be/x">>}

\* what the binary can print on standard output when it exits with 0
Outputs ==
    {EmptyStr,
     <<"a", "/", "b", "\n", "U", "\n">>,
     <<"a", "/", "b", "\n">>,
     <<"\n", "U", "\n">>}

\* Content-Type headers of the upstream response
ContentTypes == {EmptyStr, <<"audio/", "webm">>}

\* the characters an output is made of: an ordinary one, a reserved one,
\* a blank and the newline
OutAlphabet == {"a", "/", " ", "\n"}

\* every string over OutAlphabet of at most n characters
SeqsUpTo(n) == UNION {[1..k -> OutAlphabet] : k \in 0..n}

\* index of the first sep in s, or 0
RECURSIVE IndexFrom(_, _, _)
IndexFrom(s, sep, i) ==
    IF i > Len(s) THEN 0
    ELSE IF s[i] = sep THEN i ELSE IndexFrom(s, sep, i + 1)

\* strings.SplitN(s, sep, 2)
SplitN2(s, sep) ==
    LET i == IndexFrom(s, sep, 1) IN
    IF i = 0 THEN <<s>>
    ELSE <<SubSeq(s, 1, i - 1), SubSeq(s, i + 1, Len(s))>>

\* strings.Contains(s, tok)
Contains(s, tok) == \E i \in 1..Len(s) : s[i] = tok

DefaultTitle == <<"YouTube Video">>

\* a parse that splits the output without trimming it first
ParseOutput_SplitUntrimmed(out) ==
    LET lines == SplitN2(out, "\n")
        title == IF Len(lines) >= 1 /\ lines[1] # EmptyStr THEN lines[1] ELSE <<"YouTube Video">>
        noURL == Len(lines) < 2 \/ lines[2] = EmptyStr
    IN [title |-> title,
        noURL |-> noURL,
        audioURL |-> IF noURL THEN EmptyStr ELSE TrimSpace(lines[2])]

\* lines 93-103: the title and the media URL parsed from the output, and
\* whether the "no audio URL found" branch is taken
ParseOutput(out) ==
    LET lines == SplitN2(TrimSpace(out), "\n")
        title == IF Len(lines) >= 1 /\ lines[1] # EmptyStr THEN lines[1] ELSE DefaultTitle
        noURL == Len(lines) < 2 \/ lines[2] = EmptyStr
    IN [title |-> title,
        noURL |-> noURL,
        audioURL |-> IF noURL THEN EmptyStr ELSE TrimSpace(lines[2])]

Reserved == {"/", "\\", ":", "*", "?", "\"", "<", ">", "|"}

\* runes that take two bytes in UTF-8
Wide == {"é"}

\* the UTF-8 bytes of rune r, each named by the rune and its position
RuneBytes(r) == IF r \in Wide THEN <<<<r, 1>>, <<r, 2>>>> ELSE <<<<r, 1>>>>

\* the bytes the strings.Builder holds after the loop of sanitizeFilename
RECURSIVE SanitizedBytes(_)
SanitizedBytes(s) ==
    IF s = <<>> THEN <<>>
    ELSE RuneBytes(IF Head(s) \in Reserved THEN "_" ELSE Head(s))
           \o SanitizedBytes(Tail(s))

\* the length, in bytes, that sanitizeFilename cuts its result to
MaxNameBytes == 80

sanitizeFilename(s) ==
    LET result == SanitizedBytes(s) IN
    IF Len(result) > MaxNameBytes THEN SubSeq(result, 1, MaxNameBytes) ELSE result

\* the title made of n times the rune r
Repeat(r, n) == [i \in 1..n |-> r]

\* titles around the length at which sanitizeFilename cuts, of one-byte and
\* of two-byte runes, plain or with a reserved character in front
LongTitles ==
    {front \o Repeat(r, n) :
        front \in {EmptyStr, <<"/">>},
        r \in {"a"} \cup Wide,
        n \in {MaxNameBytes \div 2 - 1, MaxNameBytes \div 2, MaxNameBytes \div 2 + 1,
               MaxNameBytes - 2, MaxNameBytes - 1, MaxNameBytes, MaxNameBytes + 1}}

\* outputs of every shape up to MaxOut characters, and the long titles each
\* followed by a URL line
WideOutputs ==
    SeqsUpTo(MaxOut) \cup {t \o <<"\n", "a", "\n">> : t \in LongTitles}

\* the extension chosen from the upstream content type
ExtOf(ct) ==
    IF Contains(ct, "webm") \/ Contains(ct, "ogg") THEN "webm" ELSE "m4a"

\* the handler returns: the response is complete, the locals are gone
Respond(r, status, body, headers) ==
    [r EXCEPT !.pc = "done", !.status = status, !.body = body,
              !.headers = headers, !.bin = EmptyStr, !.ran = EmptyStr,
              !.atRead = Absent, !.swapped = FALSE,
              !.title = EmptyStr, !.audioURL = EmptyStr]

\* a request arrives at handler h
NewReq(m, u) == [IdleReq EXCEPT !.method = m, !.url = u]

Free(h) == areq[h].pc \in {"idle", "done"}

\* an OPTIONS request: 204 and nothing else
AudioOptions(h) ==
    /\ mainpc = "serving" /\ Free(h)
    /\ \E u \in URLs :
         areq' = [areq EXCEPT ![h] = Respond(NewReq("OPTIONS", u), 204, "", <<>>)]
    /\ UNCHANGED <<mainVars, fs, binVars, updateMu, updVars, tickVars, preq>>

\* a handler that writes the 400 response and goes on without returning
AudioNoURL_NoReturn(h) ==
    /\ mainpc = "serving" /\ Free(h)
    /\ updateMu = NoHolder
    /\ updateMu' = h
    /\ \E m \in Methods \ {"OPTIONS"} :
         areq' = [areq EXCEPT ![h] = [NewReq(m, EmptyStr) EXCEPT !.pc = "held", !.status = 400]]
    /\ UNCHANGED <<mainVars, fs, binVars, updVars, tickVars, preq>>

\* a request without the url parameter
AudioNoURL(h) ==
    /\ mainpc = "serving" /\ Free(h)
    /\ \E m \in Methods \ {"OPTIONS"} :
         areq' = [areq EXCEPT ![h] =
                    Respond(NewReq(m, EmptyStr), 400, "url parameter required", <<>>)]
    /\ UNCHANGED <<mainVars, fs, binVars, updateMu, updVars, tickVars, preq>>

\* a request with a url: the handler gets to updateMu.Lock() and takes it
AudioLock(h) ==
    /\ mainpc = "serving" /\ Free(h)
    /\ updateMu = NoHolder
    /\ updateMu' = h
    /\ \E m \in Methods \ {"OPTIONS"}, u \in URLs \ {EmptyStr} :
         areq' = [areq EXCEPT ![h] = [NewReq(m, u) EXCEPT !.pc = "held"]]
    /\ UNCHANGED <<mainVars, fs, binVars, updVars, tickVars, preq>>

\* bin := ytdlpPath; updateMu.Unlock()
AudioRead(h) ==
    /\ mainpc = "serving" /\ areq[h].pc = "held"
    /\ areq' = [areq EXCEPT ![h].bin = ytdlpPath, ![h].atRead = fs[ytdlpPath],
                            ![h].pc = "exec"]
    /\ updateMu' = Unlock(updateMu)
    /\ UNCHANGED <<mainVars, fs, binVars, updVars, tickVars, preq>>

\* a handler that looks the path up again when it starts the binary
ExecTarget_Reread(h) == ytdlpPath

\* the path exec.Command is given
ExecTarget(h) == areq[h].bin

\* cmd.Output() starts the binary found at the path
AudioExec(h) ==
    /\ mainpc = "serving" /\ areq[h].pc = "exec"
    /\ Runnable(fs[ExecTarget(h)])
    /\ areq' = [areq EXCEPT ![h].pc = "running", ![h].invoked = TRUE,
                            ![h].ran = ExecTarget(h),
                            ![h].swapped = (fs[ExecTarget(h)] # areq[h].atRead)]
    /\ UNCHANGED <<mainVars, fs, binVars, updateMu, updVars, tickVars, preq>>

\* cmd.Output() cannot start what it finds at the path
AudioExecErr(h) ==
    /\ mainpc = "serving" /\ areq[h].pc = "exec"
    /\ ~Runnable(fs[ExecTarget(h)])
    /\ areq' = [areq EXCEPT ![h] =
                  Respond([areq[h] EXCEPT !.invoked = TRUE, !.cmdErr = TRUE],
                          500, "yt-dlp failed", <<>>)]
    /\ UNCHANGED <<mainVars, fs, binVars, updateMu, updVars, tickVars, preq>>

\* the binary exits with a non-zero status
AudioExitErr(h) ==
    /\ mainpc = "serving" /\ areq[h].pc = "running"
    /\ areq' = [areq EXCEPT ![h] =
                  Respond([areq[h] EXCEPT !.cmdErr = TRUE], 500, "yt-dlp failed", <<>>)]
    /\ UNCHANGED <<mainVars, fs, binVars, updateMu, updVars, tickVars, preq>>

\* the binary exits with 0: cmd.Output() returns what it printed, one of outs
AudioOutputFrom(h, outs) ==
    /\ mainpc = "serving" /\ areq[h].pc = "running"
    /\ \E out \in outs :
         areq' = [areq EXCEPT ![h].pc = "output", ![h].out = out]
    /\ UNCHANGED <<mainVars, fs, binVars, updateMu, updVars, tickVars, preq>>

AudioOutput(h) == AudioOutputFrom(h, Outputs)

\* lines 98-102: the output has no second line
AudioNoAudioURL(h) ==
    /\ mainpc = "serving" /\ areq[h].pc = "output"
    /\ ParseOutput(areq[h].out).noURL
    /\ areq' = [areq EXCEPT ![h] = Respond(areq[h], 500, "no audio URL found", <<>>)]
    /\ UNCHANGED <<mainVars, fs, binVars, updateMu, updVars, tickVars, preq>>

\* lines 93-103: title and media URL are parsed from the output
AudioParsed(h) ==
    /\ mainpc = "serving" /\ areq[h].pc = "output"
    /\ ~ParseOutput(areq[h].out).noURL
    /\ areq' = [areq EXCEPT ![h].pc = "proxy",
                            ![h].title = ParseOutput(areq[h].out).title,
                            ![h].audioURL = ParseOutput(areq[h].out).audioURL]
    /\ UNCHANGED <<mainVars, fs, binVars, updateMu, updVars, tickVars, preq>>

\* client.Do(req) fails
AudioProxyErr(h) ==
    /\ mainpc = "serving" /\ areq[h].pc = "proxy"
    /\ areq' = [areq EXCEPT ![h] =
                  Respond([areq[h] EXCEPT !.upstream = TRUE], 500, "download failed", <<>>)]
    /\ UNCHANGED <<mainVars, fs, binVars, updateMu, updVars, tickVars, preq>>

\* client.Do(req) succeeds: headers are derived and the body is streamed
AudioProxyOk(h) ==
    /\ mainpc = "serving" /\ areq[h].pc = "proxy"
    /\ \E upstreamCT \in ContentTypes :
         LET ct == IF upstreamCT = EmptyStr THEN <<"audio/", "mp4">> ELSE upstreamCT
             hdr == [contentType |-> ct, ext |-> ExtOf(ct),
                     filename |-> sanitizeFilename(areq[h].title),
                     videoTitle |-> areq[h].title]
         IN areq' = [areq EXCEPT ![h] =
                       Respond([areq[h] EXCEPT !.upstream = TRUE], 200, "stream", <<hdr>>)]
    /\ UNCHANGED <<mainVars, fs, binVars, updateMu, updVars, tickVars, preq>>

(***************************************************************************)
(* The /ping handler.                                                      *)
(***************************************************************************)
\* a request arrives; the handler takes updateMu
PingLock ==
    /\ mainpc = "serving" /\ preq.pc \in {"idle", "done"}
    /\ updateMu = NoHolder
    /\ updateMu' = PingId
    /\ preq' = [pc |-> "held", v |-> EmptyStr]
    /\ UNCHANGED <<mainVars, fs, binVars, updVars, tickVars, areq>>

\* v := ytdlpVersion; updateMu.Unlock(); the payload is written
PingRead ==
    /\ mainpc = "serving" /\ preq.pc = "held"
    /\ preq' = [pc |-> "done", v |-> ytdlpVersion]
    /\ updateMu' = Unlock(updateMu)
    /\ UNCHANGED <<mainVars, fs, binVars, updVars, tickVars, areq>>

(***************************************************************************)
(* The specification.                                                      *)
(***************************************************************************)
MainNext ==
    \/ MainExtractExisting
    \/ MainExtractWrite
    \/ MainExtractFatal
    \/ MainVersion
    \/ MainSpawn
    \/ MainListen
    \/ MainListenFatal

UpdaterNext ==
    \/ UpdReleaseOk
    \/ UpdReleaseErr
    \/ UpdReleaseStall
    \/ UpdLock1
    \/ UpdRead
    \/ UpdUpToDate
    \/ UpdOutdated
    \/ UpdGetOk
    \/ UpdGetErr
    \/ UpdGetStall
    \/ UpdOpenOk
    \/ UpdOpenErr
    \/ UpdCopyChunk
    \/ UpdCopyErr
    \/ UpdCopyStall
    \/ UpdRenameOk
    \/ UpdRenameErr
    \/ UpdLock2
    \/ UpdSetPath
    \/ UpdSetVersion
    \/ UpdTick

AudioNext(h) ==
    \/ AudioOptions(h)
    \/ AudioNoURL(h)
    \/ AudioLock(h)
    \/ AudioRead(h)
    \/ AudioExec(h)
    \/ AudioExecErr(h)
    \/ AudioExitErr(h)
    \/ AudioOutput(h)
    \/ AudioNoAudioURL(h)
    \/ AudioParsed(h)
    \/ AudioProxyErr(h)
    \/ AudioProxyOk(h)

PingNext == PingLock \/ PingRead

Next ==
    \/ MainNext
    \/ UpdaterNext
    \/ Tick
    \/ \E h \in AudioIds : AudioNext(h)
    \/ PingNext

Spec == Init /\ [][Next]_vars

(***************************************************************************)
(* The /audio handler on its own: the helper is serving with the embedded  *)
(* binary in place and the updater waiting for its next tick after a       *)
(* failed check, and the binary may print any output of WideOutputs.       *)
(* Requests do not act on one another, so one handler is followed.         *)
(***************************************************************************)
AudioInit ==
    /\ cfgOK \in BOOLEAN
    /\ fs = [p \in Paths |-> IF p = ExtractOutPath(cfgOK)
                              THEN FileOf(Embedded, FileChunks) ELSE Absent]
    /\ mainpc = "serving"
    /\ ytdlpPath = ExtractOutPath(cfgOK)
    /\ ytdlpVersion = EmbeddedVersion
    /\ updateMu = NoHolder
    /\ upc = "wait"
    /\ latestVersion = EmptyStr
    /\ downloadURL = EmptyStr
    /\ current = EmptyStr
    /\ resp = NoResp
    /\ newPath = EmptyStr
    /\ logLine = "update check failed"
    /\ ticker = TRUE
    /\ tickBuf = 0
    /\ pre = NoPre
    /\ areq = [h \in AudioIds |-> IdleReq]
    /\ preq = IdlePing

AudioOutputWide(h) == AudioOutputFrom(h, WideOutputs)

\* one request at a time, on the first handler
AudioOnlyNext ==
    LET h == 1 IN
       \/ AudioOptions(h)
       \/ AudioNoURL(h)
       \/ AudioLock(h)
       \/ AudioRead(h)
       \/ AudioExec(h)
       \/ AudioExitErr(h)
       \/ AudioOutputWide(h)
       \/ AudioNoAudioURL(h)
       \/ AudioParsed(h)
       \/ AudioProxyErr(h)
       \/ AudioProxyOk(h)

AudioSpec == AudioInit /\ [][AudioOnlyNext]_vars

(***************************************************************************)
(* The helper over several runs on one disk: the process can be ended at   *)
(* any point and started again, and os.Stat can fail for another reason    *)
(* than a missing file. The files stay, the memory starts afresh.          *)
(***************************************************************************)
\* extractYtDlp when os.Stat fails with an error that is not "does not
\* exist" (the directory cannot be searched, a path element is a file):
\* os.IsNotExist(err) is false, nothing is written, outPath is returned
MainExtractStatErr ==
    /\ mainpc = "extract"
    /\ ~fs[ExtractOutPath(cfgOK)].exists
    /\ ytdlpPath' = ExtractOutPath(cfgOK)
    /\ mainpc' = "version"
    /\ UNCHANGED <<cfgOK, fs, ytdlpVersion, updateMu, updVars, tickVars, reqVars>>

\* the process is ended (signal, power loss) while os.WriteFile is writing
\* the embedded binary to outPath: what was written so far stays there
MainExtractKilled ==
    /\ mainpc = "extract"
    /\ ~fs[ExtractOutPath(cfgOK)].exists
    /\ \E n \in 0..(FileChunks - 1) :
         fs' = [fs EXCEPT ![ExtractOutPath(cfgOK)] = FileOf(Embedded, n)]
    /\ mainpc' = "killed"
    /\ UNCHANGED <<cfgOK, binVars, updateMu, updVars, tickVars, reqVars>>

\* the process is ended at any other point: the files stay as they are
Kill ==
    /\ Alive
    /\ mainpc' = "killed"
    /\ UNCHANGED <<cfgOK, fs, binVars, updateMu, updVars, tickVars, reqVars>>

\* the helper is started again: main runs from its first line, with the
\* globals at their zero values and the disk as the last run left it
Restart ==
    /\ ~Alive
    /\ mainpc' = "extract"
    /\ ytdlpPath' = EmptyStr
    /\ ytdlpVersion' = EmptyStr
    /\ updateMu' = NoHolder
    /\ upc' = "off"
    /\ latestVersion' = EmptyStr
    /\ downloadURL' = EmptyStr
    /\ current' = EmptyStr
    /\ resp' = NoResp
    /\ newPath' = EmptyStr
    /\ logLine' = ""
    /\ ticker' = FALSE
    /\ tickBuf' = 0
    /\ pre' = NoPre
    /\ areq' = [h \in AudioIds |-> IdleReq]
    /\ preq' = IdlePing
    /\ UNCHANGED <<cfgOK, fs>>

LifeNext ==
    \/ MainExtractKilled
    \/ MainExtractStatErr
    \/ MainNext
    \/ UpdaterNext
    \/ Tick
    \/ Kill
    \/ Restart

LifeSpec == Init /\ [][LifeNext]_vars

(***************************************************************************)
(* Vocabulary of the properties.                                           *)
(***************************************************************************)
\* the updater is inside checkAndUpdate (spec 4.4: not Idle)
InCycle == upc \notin {"off", "wait"}

\* the updater is blocked in a network read that has no deadline
Stalled == upc \in {"check_stalled", "dl_stalled", "copy_stalled"}

\* the cycle that is ending was abandoned (spec 4.4: Failed)
FailedLines == {"update check failed", "update download failed"}

\* this step is the return of checkAndUpdate
CycleEnds == InCycle /\ upc' = "wait"

\* the whole body of the running cycle's download, as a file
Downloaded == FileOf(resp.body, FileChunks)

C2_FailedCycleChangesNothing ==
    [][ (CycleEnds /\ logLine' \in FailedLines) =>
          /\ ytdlpPath' = pre.path
          /\ ytdlpVersion' = pre.version
          /\ \A p \in Targets : fs'[p] = pre.files[p] ]_vars

\* a cycle failed after half of the download had been written
C2_Witness ==
    /\ upc = "wait"
    /\ logLine = "update download failed"
    /\ fs[tmpPath(DownloadOutPath(cfgOK))].exists
    /\ fs[tmpPath(DownloadOutPath(cfgOK))].len = 1
    /\ Runnable(fs[ytdlpPath])

(***************************************************************************)
(* C3. A cycle that ends with "yt-dlp updated" had a feed version that     *)
(* differs from the version it read, and at its end the recorded version   *)
(* is the feed's version and the file at the recorded path is exactly the  *)
(* bytes that were downloaded: the release's asset when the download was   *)
(* answered with status 200.                                               *)
(***************************************************************************)
C3_UpdateInstallsRelease ==
    [][ (CycleEnds /\ logLine' = "yt-dlp updated") =>
          /\ current # latestVersion
          /\ current = pre.version
          /\ ytdlpVersion' = latestVersion
          /\ ytdlpPath' = DownloadOutPath(cfgOK)
          /\ fs'[ytdlpPath'] = Downloaded
          /\ resp.status = 200 =>
               fs'[ytdlpPath'] = FileOf(Asset(latestVersion), FileChunks) ]_vars

\* the embedded version was replaced by the first release
C3_Witness ==
    /\ upc = "wait"
    /\ logLine = "yt-dlp updated"
    /\ ytdlpVersion = ReleaseVersion(1)
    /\ fs[ytdlpPath] = FileOf(Asset(ReleaseVersion(1)), FileChunks)

(***************************************************************************)
(* C4. A cycle in which the feed's version equals the recorded version     *)
(* downloads nothing, writes no file (temp or target) and leaves path and  *)
(* version alone: up to its comparison a cycle changes nothing, and when   *)
(* the versions are equal the comparison ends the cycle.                   *)
(***************************************************************************)
C4_UpToDateCycleIsNoOp ==
    [][ /\ upc \in {"check", "lock1", "held1", "compare"} /\ upc' # "dl_get" =>
             UNCHANGED <<fs, ytdlpPath, ytdlpVersion, resp>>
        /\ (upc = "compare" /\ current = latestVersion /\ upc' # upc) =>
             /\ upc' = "wait"
             /\ logLine' = "yt-dlp is up to date"
        /\ (CycleEnds /\ logLine' = "yt-dlp is up to date") =>
             /\ resp = NoResp
             /\ latestVersion = pre.version
             /\ ytdlpPath' = pre.path
             /\ ytdlpVersion' = pre.version
             /\ \A p \in Targets : fs'[p] = pre.files[p] ]_vars

\* a second check after an update found nothing to do
C4_Witness ==
    /\ upc = "wait"
    /\ logLine = "yt-dlp is up to date"
    /\ ytdlpVersion = ReleaseVersion(1)

(***************************************************************************)
(* C5. Cycles do not overlap and ticks do not pile up: a cycle starts only *)
(* from the idle loop (at spawn or on receiving a tick), a tick that       *)
(* arrives while a cycle runs leaves the cycle as it is, and never more    *)
(* than one tick is waiting however many arrive during a cycle.            *)
(***************************************************************************)
C5_OneCycleAtATime ==
    [][ /\ tickBuf' <= 1
        /\ (upc' = "check" /\ upc # "check") => upc \in {"off", "wait"}
        /\ (upc' = "check" /\ upc = "wait") => tickBuf' = tickBuf - 1
        /\ (InCycle /\ tickBuf' # tickBuf) => UNCHANGED <<updVars, fs, binVars>> ]_vars

\* a tick is waiting while a download is being written
C5_Witness ==
    /\ upc = "dl_copy"
    /\ tickBuf = 1

(***************************************************************************)
(* C6. Every cycle that starts returns to the idle loop: while the process *)
(* lives and a cycle is in progress, the updater can take its next step,   *)
(* or it waits for updateMu, which another goroutine holds only briefly.   *)
(* No state of a cycle is a dead end.                                      *)
(***************************************************************************)
C6_CycleAlwaysReturns ==
    (Alive /\ InCycle) =>
        \/ ENABLED UpdaterNext
        \/ updateMu \notin {NoHolder, UpdaterId}

(***************************************************************************)
(* C7. After startup, whenever updateMu is free (so that a reader can take *)
(* its snapshot), the managed binary never has a non-empty path together   *)
(* with an empty version.                                                  *)
(***************************************************************************)
C7_NoEmptyVersion ==
    (mainpc \in {"spawn", "listen", "serving"} /\ updateMu = NoHolder) =>
        ~(ytdlpPath # EmptyStr /\ ytdlpVersion = EmptyStr)

(***************************************************************************)
(* C8. updateMu is held only at the statements that copy or assign         *)
(* ytdlpPath and ytdlpVersion: whoever holds it is at such a statement,    *)
(* never at a network request, a file operation or a subprocess.           *)
(***************************************************************************)
C8_LockOnlyAroundFields ==
    /\ updateMu = UpdaterId => upc \in {"held1", "held2a", "held2b"}
    /\ updateMu = PingId => preq.pc = "held"
    /\ \A h \in AudioIds : updateMu = h => areq[h].pc = "held"
    /\ updateMu \in {NoHolder, UpdaterId, PingId} \cup AudioIds
    /\ upc \in {"check", "dl_get", "dl_open", "dl_copy", "dl_rename"} \cup
               {"check_stalled", "dl_stalled", "copy_stalled"}
         => updateMu # UpdaterId
    /\ \A h \in AudioIds :
         areq[h].pc \in {"exec", "running", "output", "proxy"} => updateMu # h

\* a request takes its snapshot while the download is being written
C8_Witness ==
    /\ upc = "dl_copy"
    /\ \E h \in AudioIds : updateMu = h /\ areq[h].pc = "held"

(***************************************************************************)
(* C9, as stated: only a request that read the path after the install      *)
(* observes the new binary, that is, the file a request starts is the file *)
(* that was at the path when the request read the path.                    *)
(***************************************************************************)
C9_OnlyLaterReadersSeeNew ==
    \A h \in AudioIds : areq[h].pc = "running" => ~areq[h].swapped

(***************************************************************************)
(* C9, amended. A request reads ytdlpPath once, under the lock, keeps that *)
(* value until it has answered and starts the binary at that very path;    *)
(* no step of the updater (rename or assignment) touches a request that    *)
(* is in flight. Which file the request runs is decided when it starts the *)
(* binary, not when it read the path.                                      *)
(***************************************************************************)
C9_SnapshotUsedThroughout ==
    [][ \A h \in AudioIds :
          /\ (areq[h].pc = "held" /\ areq'[h].pc = "exec") =>
                areq'[h].bin = ytdlpPath
          /\ (areq[h].pc \in {"exec", "running", "output", "proxy"} /\ areq'[h].pc # "done") =>
                areq'[h].bin = areq[h].bin
          /\ (areq[h].pc = "exec" /\ areq'[h].pc = "running") =>
                /\ areq'[h].ran = areq[h].bin
                /\ areq'[h].swapped = (fs[areq[h].bin] # areq[h].atRead)
          /\ (upc' # upc \/ fs' # fs \/ binVars' # binVars) =>
                areq'[h] = areq[h] ]_vars

\* a subprocess started before the rename is still running after the
\* install has completed
C9_Witness ==
    /\ upc = "wait"
    /\ logLine = "yt-dlp updated"
    /\ \E h \in AudioIds :
         /\ areq[h].pc = "running"
         /\ ~areq[h].swapped
         /\ fs[areq[h].bin] # areq[h].atRead

(***************************************************************************)
(* C10, as stated: every request whose url parameter is absent or empty is *)
(* answered 400 with the error payload and the binary is not started;      *)
(* every request whose binary failed is answered 500 with no upstream GET; *)
(* neither sends success headers or body bytes.                            *)
(***************************************************************************)
C10_ErrorResponses ==
    \A h \in AudioIds :
       areq[h].pc = "done" =>
          /\ areq[h].url = EmptyStr =>
               /\ areq[h].status = 400
               /\ areq[h].body = "url parameter required"
               /\ ~areq[h].invoked /\ ~areq[h].upstream
               /\ areq[h].headers = <<>>
          /\ areq[h].cmdErr =>
               /\ areq[h].status = 500
               /\ areq[h].body = "yt-dlp failed"
               /\ areq[h].invoked /\ ~areq[h].upstream
               /\ areq[h].headers = <<>>

(***************************************************************************)
(* C10, amended: the same for every request that is not an OPTIONS         *)
(* pre-flight; an OPTIONS request is answered 204 with no body whatever    *)
(* its url parameter, and never starts the binary either.                  *)
(***************************************************************************)
C10_ErrorResponsesExceptPreflight ==
    \A h \in AudioIds :
       /\ areq[h].url = EmptyStr => ~areq[h].invoked /\ ~areq[h].upstream
       /\ areq[h].pc = "done" =>
          /\ areq[h].method = "OPTIONS" =>
               /\ areq[h].status = 204
               /\ areq[h].body = ""
               /\ ~areq[h].invoked /\ ~areq[h].upstream
               /\ areq[h].headers = <<>>
          /\ (areq[h].url = EmptyStr /\ areq[h].method # "OPTIONS") =>
               /\ areq[h].status = 400
               /\ areq[h].body = "url parameter required"
               /\ areq[h].headers = <<>>
          /\ areq[h].cmdErr =>
               /\ areq[h].status = 500
               /\ areq[h].body = "yt-dlp failed"
               /\ areq[h].invoked /\ ~areq[h].upstream
               /\ areq[h].headers = <<>>

\* a request whose binary was started and failed has been answered
C10_Witness ==
    \E h \in AudioIds :
       /\ areq[h].pc = "done"
       /\ areq[h].cmdErr
       /\ areq[h].invoked
       /\ areq[h].status = 500

(***************************************************************************)
(* Vocabulary of the properties of the output parsing.                     *)
(***************************************************************************)
\* s cut at every sep
RECURSIVE SplitAll(_, _)
SplitAll(s, sep) ==
    LET i == IndexFrom(s, sep, 1) IN
    IF i = 0 THEN <<s>>
    ELSE <<SubSeq(s, 1, i - 1)>> \o SplitAll(SubSeq(s, i + 1, Len(s)), sep)

\* the lines of a text: what stands between its newlines, a newline at the
\* very end closing the last line rather than opening an empty one
LinesOf(out) ==
    LET L == SplitAll(out, "\n") IN
    IF L[Len(L)] = EmptyStr THEN SubSeq(L, 1, Len(L) - 1) ELSE L

Blank(s) == \A i \in 1..Len(s) : IsSpace(s[i])

\* nothing but white space from line n on
BlankFrom(L, n) == \A i \in n..Len(L) : Blank(L[i])

\* s neither begins nor ends with white space
Tight(s) == s # EmptyStr /\ ~IsSpace(s[1]) /\ ~IsSpace(s[Len(s)])

\* the binary of request h has exited with 0 and its output has been parsed
OutputParsed(h) ==
    /\ areq[h].pc \in {"proxy", "done"}
    /\ areq[h].invoked
    /\ ~areq[h].cmdErr

\* request h was answered with the "no audio URL found" error and no
\* upstream GET
NoAudioURLAnswer(h) ==
    /\ areq[h].pc = "done"
    /\ areq[h].status = 500
    /\ areq[h].body = "no audio URL found"
    /\ ~areq[h].upstream
    /\ areq[h].headers = <<>>

\* the extraction of request h yielded title t and media URL u
Extracted(h, t, u) ==
    /\ areq[h].pc = "proxy" => areq[h].title = t /\ areq[h].audioURL = u
    /\ areq[h].pc = "done" =>
          /\ areq[h].upstream
          /\ areq[h].status = 200 => areq[h].headers[1].videoTitle = t

(***************************************************************************)
(* C11, as stated: an output whose second line is empty (or blank) or      *)
(* absent is answered with "no audio URL found", status 500 and no         *)
(* upstream GET; an output that is a title line followed by a URL line,    *)
(* the title not blank and the URL without white space around it, yields   *)
(* exactly that title and that URL.                                        *)
(***************************************************************************)
C11_ParseTwoLines ==
    \A h \in AudioIds :
       OutputParsed(h) =>
          LET L == LinesOf(areq[h].out) IN
          /\ (Len(L) < 2 \/ Blank(L[2])) => NoAudioURLAnswer(h)
          /\ (Len(L) = 2 /\ ~Blank(L[1]) /\ Tight(L[2])) =>
                Extracted(h, L[1], L[2])

(***************************************************************************)
(* C11, amended: the same when nothing but white space follows the second  *)
(* line, the title line does not begin with white space and the URL line   *)
(* neither begins nor ends with it.                                        *)
(***************************************************************************)
C11_ParseTwoTightLines ==
    \A h \in AudioIds :
       OutputParsed(h) =>
          LET L == LinesOf(areq[h].out) IN
          /\ ((Len(L) < 2 \/ Blank(L[2])) /\ BlankFrom(L, 3)) =>
                NoAudioURLAnswer(h)
          /\ (/\ Len(L) >= 2 /\ BlankFrom(L, 3)
              /\ L[1] # EmptyStr /\ ~IsSpace(L[1][1])
              /\ Tight(L[2])) =>
                Extracted(h, L[1], L[2])

\* a request whose binary printed a title line and an empty second line
\* was answered "no audio URL found"
C11_Witness ==
    \E h \in AudioIds :
       /\ OutputParsed(h)
       /\ areq[h].out = <<"a", "\n", "\n">>
       /\ NoAudioURLAnswer(h)

(***************************************************************************)
(* C12. An output whose first line is empty and whose second line is a     *)
(* media URL succeeds with the title "YouTube Video" and that URL.         *)
(***************************************************************************)
C12_EmptyTitleDefaults ==
    \A h \in AudioIds :
       OutputParsed(h) =>
          LET L == LinesOf(areq[h].out) IN
          (Len(L) = 2 /\ L[1] = EmptyStr /\ Tight(L[2])) =>
             /\ ~NoAudioURLAnswer(h)
             /\ Extracted(h, <<"YouTube Video">>, L[2])

(***************************************************************************)
(* C13. The file name derived from any title holds no reserved character   *)
(* and is at most 80 characters long, and a title without reserved         *)
(* character of fewer than 80 characters, multi-byte ones included, is     *)
(* its own file name.                                                      *)
(***************************************************************************)
\* the UTF-8 encoding of a string
RECURSIVE Utf8(_)
Utf8(s) == IF s = <<>> THEN <<>> ELSE RuneBytes(Head(s)) \o Utf8(Tail(s))

\* the number of characters in a sequence of bytes: its lead bytes
CharCount(bytes) == Cardinality({i \in 1..Len(bytes) : bytes[i][2] = 1})

C13_SanitizedName ==
    \A h \in AudioIds :
       (areq[h].pc = "done" /\ areq[h].status = 200) =>
          LET title == areq[h].headers[1].videoTitle
              name == areq[h].headers[1].filename
          IN /\ \A i \in 1..Len(name) : name[i][1] \notin Reserved
             /\ CharCount(name) <= 80
             /\ ((\A i \in 1..Len(title) : title[i] \notin Reserved) /\ Len(title) < 80) =>
                   name = Utf8(title)

(***************************************************************************)
(* C15. A cycle whose download was answered with an HTTP error status ends *)
(* as a failed cycle: the file at every target path and the recorded       *)
(* version are what they were when the cycle started (stated for a feed    *)
(* that names its release and a download aimed at the managed binary).     *)
(***************************************************************************)
C15_ErrorStatusFails ==
    [][ (/\ CycleEnds
         /\ resp.status \notin {0, 200}
         /\ latestVersion # EmptyStr
         /\ DownloadOutPath(cfgOK) = pre.path) =>
          /\ logLine' \in FailedLines
          /\ ytdlpVersion' = pre.version
          /\ \A p \in Targets : fs'[p] = pre.files[p] ]_vars

(***************************************************************************)
(* C16, as stated: whenever a /ping request is about to read the version,  *)
(* the recorded version is the version of the binary that is at the        *)
(* recorded path (a binary that prints a version).                         *)
(***************************************************************************)
C16_PingVersionIsFileVersion ==
    (/\ preq.pc = "held"
     /\ Runnable(fs[ytdlpPath])
     /\ fs[ytdlpPath].body.tag # EmptyStr) =>
        ytdlpVersion = getYtDlpVersion(fs[ytdlpPath])

(***************************************************************************)
(* C16, amended: whenever a reader can take the lock and the file at the   *)
(* recorded path is a binary, the recorded version is that binary's        *)
(* version, except between the rename of an install and its assignment of  *)
(* the version: there the file is already the downloaded one and the       *)
(* version still the one the cycle started with. The new version is never  *)
(* recorded before the new file is in place.                               *)
(***************************************************************************)
C16_VersionLagsFile ==
    (/\ mainpc \in {"spawn", "listen", "serving"}
     /\ updateMu # UpdaterId
     /\ Runnable(fs[ytdlpPath])) =>
        \/ ytdlpVersion = getYtDlpVersion(fs[ytdlpPath])
        \/ /\ upc = "lock2"
           /\ ytdlpPath = newPath
           /\ fs[ytdlpPath] = Downloaded
           /\ ytdlpVersion = pre.version
           /\ ytdlpVersion # latestVersion

\* a /ping request holds the lock between the rename and the assignment
C16_Witness ==
    /\ upc = "lock2"
    /\ preq.pc = "held"
    /\ Runnable(fs[ytdlpPath])
    /\ fs[ytdlpPath] = Downloaded
    /\ fs[ytdlpPath].body.tag # EmptyStr
    /\ ytdlpVersion # getYtDlpVersion(fs[ytdlpPath])

(***************************************************************************)
(* C17. While the updater is idle there is no temp file next to the        *)
(* binary, unless a rename failed and left the completely written temp     *)
(* file behind.                                                            *)
(***************************************************************************)
C17_NoTempWhenIdle ==
    upc = "wait" =>
        (fs[tmpPath(ytdlpPath)].exists => Complete(fs[tmpPath(ytdlpPath)]))

(***************************************************************************)
(* C20. Whatever os.UserConfigDir answers, the path a download returns and *)
(* an install records is the path extractYtDlp chose at startup, and no    *)
(* file is ever written anywhere but at that path and its temp sibling.    *)
(***************************************************************************)
C20_InstallTargetIsManagedPath ==
    /\ newPath # EmptyStr => newPath = ExtractOutPath(cfgOK)
    /\ ytdlpPath # EmptyStr => ytdlpPath = ExtractOutPath(cfgOK)
    /\ \A p \in Paths :
         fs[p].exists => p \in {ExtractOutPath(cfgOK), tmpPath(ExtractOutPath(cfgOK))}

(***************************************************************************)
(* C14. When the first binary cannot be put in place, startup aborts       *)
(* before the updater is started and before the server listens; and        *)
(* whenever the updater has been started or the server is listening or     *)
(* serving, startup has recorded a path and there is a file at the         *)
(* recorded path.                                                          *)
(***************************************************************************)
C14_NoBinaryNoService ==
    /\ (mainpc = "fatal" /\ ytdlpPath = EmptyStr) =>
          /\ upc = "off"
          /\ \A h \in AudioIds : areq[h] = IdleReq
          /\ preq = IdlePing
    /\ (mainpc \in {"listen", "serving"} \/ upc # "off") =>
          /\ ytdlpPath # EmptyStr
          /\ fs[ytdlpPath].exists

(***************************************************************************)
(* C18. No start of the process takes a partly written file for the        *)
(* managed binary: once extractYtDlp has returned, the file at the path it *)
(* returned, if there is one, is complete.                                 *)
(***************************************************************************)
C18_NoPartialAdopted ==
    (mainpc \in {"version", "spawn", "listen", "serving"} /\ fs[ytdlpPath].exists) =>
        Complete(fs[ytdlpPath])

(***************************************************************************)
(* C19. Startup changes no file that it finds at the target path, and a    *)
(* start that finds a release installed by an earlier run's update ends    *)
(* with that file at the recorded path and its version recorded.           *)
(***************************************************************************)
C19_RestartKeepsInstalled ==
    [][ /\ (mainpc = "extract" /\ fs[ExtractOutPath(cfgOK)].exists
              /\ mainpc' \notin {"extract", "killed"}) =>
              /\ fs' = fs
              /\ ytdlpPath' = ExtractOutPath(cfgOK)
        /\ (/\ mainpc = "version" /\ mainpc' = "spawn"
            /\ Complete(fs[DownloadOutPath(cfgOK)])
            /\ fs[DownloadOutPath(cfgOK)].body.kind = "asset") =>
              /\ ytdlpPath' = DownloadOutPath(cfgOK)
              /\ fs'[ytdlpPath'] = fs[DownloadOutPath(cfgOK)]
              /\ ytdlpVersion' = fs[DownloadOutPath(cfgOK)].body.tag ]_vars
====
